---- MODULE Spec2Model ----
(***************************************************************************)
(* A model of SeExpr's Vec3d value type (src/src/SeExpr/SeVec3d.h) and of  *)
(* the pattern-matcher driver (src/src/tests/patterns.cpp): the stand-in   *)
(* function DummyFuncX, the PatternExpr host with its test resolver, and   *)
(* the interactive loop of main().  The parser, the node classes, the      *)
(* Walker and the SpecExaminer are not part of the source tree at hand;    *)
(* they are modelled from the design document.                             *)
(***************************************************************************)
EXTENDS Integers, Sequences, FiniteSets, TLC

VARIABLES
    \* ---- Vec3d operations
    a, b,          \* the receiver and the argument vector
    vop,           \* the last Vec3d operation applied
    vecResult,     \* its Vec3d result (NoVec: none)
    dblResult,     \* its double result (NaN: none)
    divisors,      \* the divisors of the divisions it performed
    \* ---- node tree operations
    node,          \* the tree under examination
    wanted,        \* the wanted type handed to DummyFuncX::prep
    top,           \* the last tree operation applied
    walks,         \* number of walks performed on the examiner
    examiner,      \* SpecExaminer: the sequence of emitted specs
    visited,       \* paths of the nodes the last walk examined, in order
    prepCalls,     \* paths of the nodes whose prep() was called, in order
    prepRet,       \* the type the last prep returned
    result,        \* SeVec3d& result of DummyFuncX::eval / evaluate()
    \* ---- driver loop of main()
    stream,        \* std::cin: the lines and whether the last one ends in '\n'
    pos,           \* number of lines getline has extracted so far
    pc,            \* position of main() in its loop
    str,           \* std::string str
    parseTree,     \* SeExpression::_parseTree
    valid,         \* SeExpression::isValid()
    log            \* what main() did, in order

vars == <<a, b, vop, vecResult, dblResult, divisors,
          node, wanted, top, walks, examiner, visited, prepCalls, prepRet, result,
          stream, pos, pc, str, parseTree, valid, log>>

vecVars == <<a, b, vop, vecResult, dblResult, divisors>>
treeVars == <<node, wanted, top, walks, visited, prepCalls, prepRet>>
driverVars == <<stream, pos, pc, str, parseTree, valid, log>>

(***************************************************************************)
(* double.  A value is an integer count of 1/Unit steps (1.0 is Unit); a   *)
(* finite value lies in -MaxDbl..MaxDbl, beyond which an operation         *)
(* overflows to an infinity, and NaN is the result of an invalid           *)
(* operation, as in IEEE 754 arithmetic.                                   *)
(***************************************************************************)
Unit == 4

MaxDbl == 400

PInf == MaxDbl + 1

NInf == -(MaxDbl + 1)

NaN == MaxDbl + 2

IsInf(x) == x = PInf \/ x = NInf

Abs(x) == IF x < 0 THEN -x ELSE x

\* an exact result rounded into the range of double
Overflow(x) == IF x > MaxDbl THEN PInf ELSE IF x < -MaxDbl THEN NInf ELSE x

\* n/d rounded to the nearest step
RoundQ(n, d) ==
    LET s == IF (n < 0) # (d < 0) THEN -1 ELSE 1
    IN  s * ((2 * Abs(n) + Abs(d)) \div (2 * Abs(d)))

Neg(x) == IF x = NaN THEN NaN ELSE -x

Add(x, y) ==
    IF x = NaN \/ y = NaN THEN NaN
    ELSE IF IsInf(x) THEN (IF IsInf(y) /\ y # x THEN NaN ELSE x)
    ELSE IF IsInf(y) THEN y
    ELSE Overflow(x + y)

Sub(x, y) == Add(x, Neg(y))

Mul(x, y) ==
    IF x = NaN \/ y = NaN THEN NaN
    ELSE IF IsInf(x) \/ IsInf(y)
         THEN IF x = 0 \/ y = 0 THEN NaN
              ELSE IF (x < 0) = (y < 0) THEN PInf ELSE NInf
    ELSE Overflow(RoundQ(x * y, Unit))

Div(x, y) ==
    IF x = NaN \/ y = NaN THEN NaN
    ELSE IF IsInf(x) THEN (IF IsInf(y) THEN NaN
                           ELSE IF (x < 0) = (y < 0) THEN PInf ELSE NInf)
    ELSE IF IsInf(y) THEN 0
    ELSE IF y = 0 THEN (IF x = 0 THEN NaN ELSE IF x > 0 THEN PInf ELSE NInf)
    ELSE Overflow(RoundQ(x * Unit, y))

\* sqrt of <math.h>, rounded down to a step
Sqrt(x) ==
    IF x = NaN \/ x < 0 THEN NaN
    ELSE IF x = PInf THEN PInf
    ELSE CHOOSE r \in 0..(x + Unit) : r * r <= x * Unit /\ x * Unit < (r + 1) * (r + 1)

\* acos of <math.h> at -1, -3/4, ..., 3/4, 1, rounded to a step
AcosTable == <<13, 10, 8, 7, 6, 5, 4, 3, 0>>

Acos(x) == IF x = NaN \/ x < -Unit \/ x > Unit THEN NaN ELSE AcosTable[x + Unit + 1]

\* a double in a condition: if (len)
Truthy(x) == x # 0

\* operator== of double: NaN equals nothing
DblEq(x, y) == x # NaN /\ y # NaN /\ x = y

(***************************************************************************)
(* Vec3d: _vec[0.._vec[2] are the components 1..3 of a tuple.              *)
(***************************************************************************)
\* the values an uninitialized double may hold
Indeterminate == {0, NaN}

setValue(x, y, z) == <<x, y, z>>

\* Vec3d() {} : _vec is left uninitialized
Vec3d_default == {setValue(x, y, z) : x \in Indeterminate, y \in Indeterminate, z \in Indeterminate}

\* Vec3d(double v)
Vec3d_scalar(v) == setValue(v, v, v)

\* Vec3d operator*(double d) const
opMul(v, d) == setValue(Mul(v[1], d), Mul(v[2], d), Mul(v[3], d))

\* Vec3d operator/(double d) const, with the divisor of its one division
opDiv(v, d) == [val |-> opMul(v, Div(Unit, d)), divs |-> <<d>>]

\* Vec3d& operator*=(double d)
opMulAssign(v, d) == setValue(Mul(v[1], d), Mul(v[2], d), Mul(v[3], d))

\* Vec3d& operator/=(double d), with the divisor of its one division
opDivAssign(v, d) == [val |-> opMulAssign(v, Div(Unit, d)), divs |-> <<d>>]

dot(v, w) == Add(Add(Mul(v[1], w[1]), Mul(v[2], w[2])), Mul(v[3], w[3]))

length(v) == Sqrt(Add(Add(Mul(v[1], v[1]), Mul(v[2], v[2])), Mul(v[3], v[3])))

normalized(v) ==
    LET len == length(v)
    IN  IF Truthy(len) THEN opDiv(v, len)
        ELSE [val |-> Vec3d_scalar(0), divs |-> <<>>]

\* the receiver after normalize()
normalize(v) ==
    LET len == length(v)
    IN  IF Truthy(len) THEN opDivAssign(v, len)
        ELSE [val |-> v, divs |-> <<>>]

\* orthogonal() with the sign of one term slipped
orthogonal_signSlip(v) == setValue(Add(v[2], v[3]), Sub(v[3], v[1]), Sub(v[1], v[2]))

orthogonal(v) == setValue(Add(v[2], v[3]), Sub(v[3], v[1]), Sub(Neg(v[1]), v[2]))

angle(v, w) ==
    LET len == Mul(length(v), length(w))
    IN  IF DblEq(len, 0) THEN [val |-> 0, divs |-> <<>>]
        ELSE [val |-> Acos(Div(dot(v, w), len)), divs |-> <<len>>]

(***************************************************************************)
(* Vec3d operations applied to vectors drawn from a bounded set.           *)
(***************************************************************************)
CompMax == 2

\* whole-number components, and the largest finite double
Comps == {c * Unit : c \in -CompMax..CompMax} \cup {MaxDbl}

\* argument vectors: zero, unit-sized and of overflowing length
ArgVecs == {<<0, 0, 0>>, <<Unit, 0, 0>>, <<0, Unit, Unit>>, <<0 - Unit, Unit, 0>>,
            <<MaxDbl, 0, 0>>, <<MaxDbl, MaxDbl, MaxDbl>>}

ZeroVec == <<0, 0, 0>>

NoVec == <<NaN, NaN, NaN>>

InitVecVars ==
    /\ a \in {setValue(x, y, z) : x \in Comps, y \in Comps, z \in Comps}
    /\ b \in ArgVecs
    /\ vop = "none"
    /\ vecResult = NoVec
    /\ dblResult = NaN
    /\ divisors = <<>>

IdleVecVars ==
    /\ a = ZeroVec
    /\ b = ZeroVec
    /\ vop = "none"
    /\ vecResult = NoVec
    /\ dblResult = NaN
    /\ divisors = <<>>

Normalized ==
    /\ vecResult' = normalized(a).val
    /\ divisors' = normalized(a).divs
    /\ vop' = "normalized"
    /\ dblResult' = NaN
    /\ UNCHANGED <<a, b>>

Normalize ==
    /\ a' = normalize(a).val
    /\ divisors' = normalize(a).divs
    /\ vop' = "normalize"
    /\ vecResult' = NoVec
    /\ dblResult' = NaN
    /\ UNCHANGED b

Orthogonal ==
    /\ vecResult' = orthogonal(a)
    /\ divisors' = <<>>
    /\ vop' = "orthogonal"
    /\ dblResult' = NaN
    /\ UNCHANGED <<a, b>>

Dot ==
    /\ dblResult' = dot(a, b)
    /\ divisors' = <<>>
    /\ vop' = "dot"
    /\ vecResult' = NoVec
    /\ UNCHANGED <<a, b>>

Angle ==
    /\ dblResult' = angle(a, b).val
    /\ divisors' = angle(a, b).divs
    /\ vop' = "angle"
    /\ vecResult' = NoVec
    /\ UNCHANGED <<a, b>>

\* angle() with the zero-length vector as the argument
AngleOf ==
    /\ dblResult' = angle(b, a).val
    /\ divisors' = angle(b, a).divs
    /\ vop' = "angleOf"
    /\ vecResult' = NoVec
    /\ UNCHANGED <<a, b>>

(***************************************************************************)
(* Parse trees.  A node has a kind ("func", "var", "str", "num"), a name   *)
(* and an ordered sequence of children; child indices and paths count from *)
(* 0 as in the source.                                                     *)
(***************************************************************************)
Func(name, children) == [kind |-> "func", name |-> name, children |-> children]

Var(name) == [kind |-> "var", name |-> name, children |-> <<>>]

Str(text) == [kind |-> "str", name |-> text, children |-> <<>>]

Num(text) == [kind |-> "num", name |-> text, children |-> <<>>]

\* _parseTree of an expression that did not parse
NoTree == [kind |-> "none", name |-> "", children |-> <<>>]

numChildren(n) == Len(n.children)

child(n, i) == n.children[i + 1]

\* the i-th argument is a string literal
isStrArg(n, i) == child(n, i).kind = "str"

RECURSIVE nodeAt(_, _)
nodeAt(n, path) == IF path = <<>> THEN n ELSE nodeAt(child(n, Head(path)), Tail(path))

(***************************************************************************)
(* PatternExpr: the test resolver and the stand-in function DummyFuncX.    *)
(***************************************************************************)
NullRef == "0"

\* SeExprVarRef* resolveVar(name) : no variable is known
resolveVar(name) == NullRef

\* SeExprFunc* resolveFunc(name) : every name is the stand-in function
resolveFunc(name) == "dummyFunc"

Types == {"FP1", "FP3", "String", "Error"}

\* SeExprType::isValid()
isValidType(t) == t # "Error"

\* the type prep(bool wantScalar, env) asks a function for
wantedType(wantScalar) == IF wantScalar THEN "FP1" ELSE "FP3"

RECURSIVE SeExprNode_prep(_, _, _)
RECURSIVE DummyFuncX_prepLoop(_, _, _, _, _)
RECURSIVE DummyFuncX_prepArg(_, _, _)
RECURSIVE DummyFuncX_prep(_, _, _)

\* the loop body with the isStrArg test dropped
DummyFuncX_prepArg_everyChild(n, path, i) ==
    LET r == SeExprNode_prep(child(n, i), path \o <<i>>, FALSE)
    IN  [valid |-> isValidType(r.type), calls |-> r.calls]

\* one pass of the loop body of DummyFuncX::prep for child i:
\* whether the child counts as valid, and the prep calls made
DummyFuncX_prepArg(n, path, i) ==
    IF ~isStrArg(n, i)
    THEN LET r == SeExprNode_prep(child(n, i), path \o <<i>>, FALSE)
         IN  [valid |-> isValidType(r.type), calls |-> r.calls]
    ELSE [valid |-> TRUE, calls |-> <<>>]

\* for(int i=0;i<node->numChildren();i++) from i on, valid and calls so far given
DummyFuncX_prepLoop(n, path, i, validSoFar, calls) ==
    IF i < numChildren(n)
    THEN LET r == DummyFuncX_prepArg(n, path, i)
         IN  DummyFuncX_prepLoop(n, path, i + 1, validSoFar /\ r.valid, calls \o r.calls)
    ELSE [valid |-> validSoFar, calls |-> calls]

\* prep that reports an invalid argument to its caller
DummyFuncX_prep_checked(n, path, want) ==
    LET r == DummyFuncX_prepLoop(n, path, 0, TRUE, <<>>)
    IN  [type |-> IF r.valid THEN want ELSE "Error", calls |-> r.calls]

\* SeExprType DummyFuncX::prep(node, wanted, env), with the prep calls it made
DummyFuncX_prep(n, path, want) ==
    LET r == DummyFuncX_prepLoop(n, path, 0, TRUE, <<>>)
    IN  [type |-> want, calls |-> r.calls]

\* SeExprNode::prep(wantScalar, env) of the node at path: the type it reports and
\* the paths of the nodes prepared, this one first
SeExprNode_prep(n, path, wantScalar) ==
    CASE n.kind = "func" ->
            IF resolveFunc(n.name) = NullRef
            THEN [type |-> "Error", calls |-> <<path>>]
            ELSE LET r == DummyFuncX_prep(n, path, wantedType(wantScalar))
                 IN  [type |-> r.type, calls |-> <<path>> \o r.calls]
      [] n.kind = "var" ->
            [type |-> IF resolveVar(n.name) = NullRef THEN "Error" ELSE "FP1",
             calls |-> <<path>>]
      [] n.kind = "num" -> [type |-> "FP1", calls |-> <<path>>]
      [] n.kind = "str" -> [type |-> "String", calls |-> <<path>>]
      [] OTHER -> [type |-> "Error", calls |-> <<>>]

\* void DummyFuncX::eval(node, result) : the values result may hold afterwards
DummyFuncX_eval(n, res) == Vec3d_default

(***************************************************************************)
(* Walker and SpecExaminer.                                                *)
(***************************************************************************)
\* the usage spec of a call or reference site
SpecOf(n, path) ==
    [kind |-> IF n.kind = "func" THEN "call" ELSE "ref",
     name |-> n.name, path |-> path, nargs |-> numChildren(n)]

\* the examiner's per-node hook: the state after the node at path was examined
SpecExaminer_examine(n, path, st) ==
    [specs   |-> IF n.kind \in {"func", "var"}
                 THEN Append(st.specs, SpecOf(n, path)) ELSE st.specs,
     visited |-> Append(st.visited, path)]

RECURSIVE ConstWalker_internalWalk(_, _, _)
RECURSIVE ConstWalker_walkChildren(_, _, _, _)

\* the children from i on, string arguments walked like the others
ConstWalker_walkChildren_all(n, path, i, st) ==
    IF i < numChildren(n)
    THEN ConstWalker_walkChildren(n, path, i + 1,
             ConstWalker_internalWalk(child(n, i), path \o <<i>>, st))
    ELSE st

\* the children from i on, left to right, string arguments passed over
ConstWalker_walkChildren(n, path, i, st) ==
    IF i < numChildren(n)
    THEN ConstWalker_walkChildren(n, path, i + 1,
             IF isStrArg(n, i) THEN st
             ELSE ConstWalker_internalWalk(child(n, i), path \o <<i>>, st))
    ELSE st

\* the children are walked before the node itself is examined
ConstWalker_internalWalk_postOrder(n, path, st) ==
    SpecExaminer_examine(n, path, ConstWalker_walkChildren(n, path, 0, st))

\* pre-order: examine the node, then walk its children
ConstWalker_internalWalk(n, path, st) ==
    ConstWalker_walkChildren(n, path, 0, SpecExaminer_examine(n, path, st))

\* walk(root) on an examiner holding specs ex
ConstWalker_walk(root, ex) ==
    ConstWalker_internalWalk(root, <<>>, [specs |-> ex, visited |-> <<>>])

\* walk() that first drops what the examiner holds
PatternExpr_walk_fresh(tree, ex) == ConstWalker_walk(tree, <<>>)

\* inline void walk () { _walker.walk (_parseTree); }
PatternExpr_walk(tree, ex) == ConstWalker_walk(tree, ex)

\* void specs() { if(isValid()) { walk(); printSpecs(_examiner); }; }
PatternExpr_specs(isv, tree, ex) ==
    IF isv
    THEN LET w == PatternExpr_walk(tree, ex)
         IN  [specs |-> w.specs, visited |-> w.visited, walked |-> TRUE]
    ELSE [specs |-> ex, visited |-> <<>>, walked |-> FALSE]

\* printSpecs(examiner): the specs written to std::cout, in index order
PatternExpr_printSpecs(isv, ex) == IF isv THEN [i \in 1..Len(ex) |-> ex[i]] ELSE <<>>

(***************************************************************************)
(* Tree operations applied to trees drawn from a bounded set.              *)
(***************************************************************************)
MaxArgs == 3

MaxDepth == 3

MaxWalks == 1

Leaves == {Var("x"), Str("tag"), Num("1")}

\* f(...) with up to MaxArgs leaf arguments
FlatCalls == {Func("f", args) : args \in UNION {[1..k -> Leaves] : k \in 0..MaxArgs}}

\* t inside k nested one-argument calls
RECURSIVE Wrap(_, _)
Wrap(k, t) == IF k = 0 THEN t ELSE Func("g", <<Wrap(k - 1, t)>>)

\* a call whose argument 0 is a call, argument 1 a variable and argument 2 a tag
Mixed == {Func("h", <<t, Var("x"), Str("tag")>>) : t \in FlatCalls}

Trees == {Wrap(k, t) : k \in 0..(MaxDepth - 1), t \in FlatCalls} \cup Mixed

InitTreeVars ==
    /\ node \in Trees
    /\ wanted = "none"
    /\ top = "none"
    /\ walks = 0
    /\ visited = <<>>
    /\ prepCalls = <<>>
    /\ prepRet = "none"

IdleTreeVars ==
    /\ node = NoTree
    /\ wanted = "none"
    /\ top = "none"
    /\ walks = 0

\* one walk of the tree by the examiner
WalkTree ==
    /\ walks < MaxWalks
    /\ LET w == PatternExpr_walk(node, examiner)
       IN  /\ examiner' = w.specs
           /\ visited' = w.visited
    /\ walks' = walks + 1
    /\ top' = "walk"
    /\ UNCHANGED <<node, wanted, prepCalls, prepRet, result>>

\* DummyFuncX::prep on the root call node
PrepFunc ==
    /\ node.kind = "func"
    /\ \E want \in Types :
          LET r == DummyFuncX_prep(node, <<>>, want)
          IN  /\ wanted' = want
              /\ prepRet' = r.type
              /\ prepCalls' = r.calls
    /\ top' = "prep"
    /\ UNCHANGED <<node, walks, examiner, visited, result>>

\* DummyFuncX::eval on the root call node
EvalFunc ==
    /\ node.kind = "func"
    /\ result' \in DummyFuncX_eval(node, result)
    /\ top' = "eval"
    /\ UNCHANGED <<node, wanted, walks, examiner, visited, prepCalls, prepRet>>

(***************************************************************************)
(* SeExpression, as PatternExpr uses it.                                   *)
(***************************************************************************)
FTagLine == "f(x,\"tag\")"

Lines == {"q", "quit", "Quit", " q", FTagLine, "g(f())", "f("}

\* the parser: the tree of an expression text, NoTree on a syntax error
parse(text) ==
    CASE text = FTagLine  -> Func("f", <<Var("x"), Str("tag")>>)
      [] text = "g(f())"  -> Func("g", <<Func("f", <<>>)>>)
      [] text = "Quit"    -> Var("Quit")
      [] text = " q"      -> Var("q")
      [] text = "q"       -> Var("q")
      [] text = "quit"    -> Var("quit")
      [] OTHER            -> NoTree

\* preparation of a parsed expression: the root's type and the prep calls made
SeExpression_prep(tree) ==
    IF tree = NoTree THEN [type |-> "Error", calls |-> <<>>]
    ELSE SeExprNode_prep(tree, <<>>, FALSE)

\* isValid(): the expression parsed and its root prepared to a valid type
SeExpression_isValid(tree) == isValidType(SeExpression_prep(tree).type)

\* evaluate(): the values the returned vector may hold
SeExpression_evaluate(isv, tree, res) ==
    IF isv /\ tree.kind = "func" THEN DummyFuncX_eval(tree, res) ELSE {ZeroVec}

(***************************************************************************)
(* main(): the interactive loop.                                           *)
(***************************************************************************)
MaxLines == 3

\* std::cin: up to MaxLines lines; the last one may lack its newline
Streams ==
    {[lines |-> ls, newlineAtEnd |-> nl] :
        ls \in UNION {[1..k -> Lines] : k \in 0..MaxLines}, nl \in BOOLEAN}

\* getline(std::cin, str) after p lines were extracted: the string stored, whether
\* eofbit is set afterwards, and the number of lines extracted
getline(strm, p) ==
    LET n == Len(strm.lines)
    IN  IF p >= n THEN [str |-> "", eof |-> TRUE, pos |-> p]
        ELSE IF p + 1 = n /\ ~strm.newlineAtEnd
             THEN [str |-> strm.lines[n], eof |-> TRUE, pos |-> n]
        ELSE [str |-> strm.lines[p + 1], eof |-> FALSE, pos |-> p + 1]

\* void quit(str): whether exit(0) is called
quit(text) == text = "quit" \/ text = "q"

\* both branches evaluate
main_branch_always(isv) == "evaluate"

\* if(!expr.isValid()) ... else ...
main_branch(isv) == IF ~isv THEN "error" ELSE "evaluate"

Event(ev, line, n) == [ev |-> ev, line |-> line, n |-> n]

InitDriverVars ==
    /\ stream \in {st \in Streams : st.lines = <<>> => st.newlineAtEnd}
    /\ pos = 0
    /\ pc = "read"
    /\ str = ""
    /\ parseTree = NoTree
    /\ valid = FALSE
    /\ log = <<>>

IdleDriverVars ==
    /\ stream = [lines |-> <<>>, newlineAtEnd |-> TRUE]
    /\ pos = 0
    /\ pc = "idle"
    /\ str = ""
    /\ parseTree = NoTree
    /\ valid = FALSE
    /\ log = <<>>

\* lines 116-125: prompt, getline, the eof test, quit
ReadLine ==
    /\ pc = "read"
    /\ LET g == getline(stream, pos)
           text == IF g.eof THEN "q" ELSE g.str
       IN  /\ pos' = g.pos
           /\ str' = text
           /\ pc' = IF quit(text) THEN "exited" ELSE "setExpr"
    /\ UNCHANGED <<stream, parseTree, valid, log, examiner, visited, prepCalls, prepRet, result>>

\* lines 126-128: setExpr and the isValid() test
SetExpr ==
    /\ pc = "setExpr"
    /\ parseTree' = parse(str)
    /\ LET r == SeExpression_prep(parse(str))
       IN  /\ valid' = isValidType(r.type)
           /\ prepCalls' = r.calls
           /\ prepRet' = r.type
           /\ pc' = main_branch(isValidType(r.type))
    /\ log' = Append(log, Event("setExpr", str, 0))
    /\ UNCHANGED <<stream, pos, str, examiner, visited, result>>

\* line 129: the validation error is printed
ReportError ==
    /\ pc = "error"
    /\ log' = Append(log, Event("error", str, 0))
    /\ pc' = "read"
    /\ UNCHANGED <<stream, pos, str, parseTree, valid, examiner, visited, prepCalls, prepRet, result>>

\* lines 131-133: the value is evaluated and printed
Evaluate ==
    /\ pc = "evaluate"
    /\ result' \in SeExpression_evaluate(valid, parseTree, result)
    /\ log' = Append(log, Event("evaluate", str, 0))
    /\ pc' = "specs"
    /\ UNCHANGED <<stream, pos, str, parseTree, valid, examiner, visited, prepCalls, prepRet>>

\* lines 134-136: expr.specs()
Specs ==
    /\ pc = "specs"
    /\ LET r == PatternExpr_specs(valid, parseTree, examiner)
       IN  /\ examiner' = r.specs
           /\ visited' = r.visited
           /\ log' = IF r.walked
                     THEN log \o <<Event("walk", str, 0),
                                   Event("print", str, Len(PatternExpr_printSpecs(valid, r.specs)))>>
                     ELSE log
    /\ pc' = "read"
    /\ UNCHANGED <<stream, pos, str, parseTree, valid, prepCalls, prepRet, result>>

(***************************************************************************)
(* Specifications.                                                         *)
(***************************************************************************)
\* the driver session
Init ==
    /\ InitDriverVars
    /\ IdleVecVars
    /\ IdleTreeVars
    /\ examiner = <<>>
    /\ visited = <<>>
    /\ prepCalls = <<>>
    /\ prepRet = "none"
    /\ result = ZeroVec

Next ==
    \/ ReadLine /\ UNCHANGED vecVars /\ UNCHANGED <<node, wanted, top, walks>>
    \/ SetExpr /\ UNCHANGED vecVars /\ UNCHANGED <<node, wanted, top, walks>>
    \/ ReportError /\ UNCHANGED vecVars /\ UNCHANGED <<node, wanted, top, walks>>
    \/ Evaluate /\ UNCHANGED vecVars /\ UNCHANGED <<node, wanted, top, walks>>
    \/ Specs /\ UNCHANGED vecVars /\ UNCHANGED <<node, wanted, top, walks>>

Spec == Init /\ [][Next]_vars

\* main() runs without blocking: on a finite stream getline always returns
FairSpec == Spec /\ WF_vars(Next)

\* the walker, DummyFuncX::prep and DummyFuncX::eval on one tree
InitTree ==
    /\ InitTreeVars
    /\ IdleVecVars
    /\ IdleDriverVars
    /\ examiner = <<>>
    /\ result = Vec3d_scalar(Unit)

NextTree ==
    \/ WalkTree /\ UNCHANGED vecVars /\ UNCHANGED driverVars
    \/ PrepFunc /\ UNCHANGED vecVars /\ UNCHANGED driverVars
    \/ EvalFunc /\ UNCHANGED vecVars /\ UNCHANGED driverVars

SpecTree == InitTree /\ [][NextTree]_vars

\* Vec3d operations
InitVec ==
    /\ InitVecVars
    /\ IdleTreeVars
    /\ IdleDriverVars
    /\ examiner = <<>>
    /\ visited = <<>>
    /\ prepCalls = <<>>
    /\ prepRet = "none"
    /\ result = ZeroVec

NextVec ==
    \/ Normalized /\ UNCHANGED <<treeVars, driverVars, examiner, result>>
    \/ Normalize /\ UNCHANGED <<treeVars, driverVars, examiner, result>>
    \/ Orthogonal /\ UNCHANGED <<treeVars, driverVars, examiner, result>>
    \/ Dot /\ UNCHANGED <<treeVars, driverVars, examiner, result>>
    \/ Angle /\ UNCHANGED <<treeVars, driverVars, examiner, result>>
    \/ AngleOf /\ UNCHANGED <<treeVars, driverVars, examiner, result>>

SpecVec == InitVec /\ [][NextVec]_vars

(***************************************************************************)
(* Properties of the driver session (Spec).                                *)
(***************************************************************************)
\* whether an expression text is valid once set
LineValid(text) == SeExpression_isValid(parse(text))

LogIdx == 1..Len(log)

\* the expression texts handed to setExpr, in order
RECURSIVE SubmittedOf(_)
SubmittedOf(l) ==
    IF l = <<>> THEN <<>>
    ELSE IF Head(l).ev = "setExpr" THEN <<Head(l).line>> \o SubmittedOf(Tail(l))
    ELSE SubmittedOf(Tail(l))

\* C1: for every submitted line, an invalid expression gets its validation
\* error printed and is neither evaluated nor walked; evaluate(), walk() and the
\* printing of specs happen only for a line whose expression is valid.
C1_InvalidNeitherEvaluatedNorWalked ==
    /\ \A k \in LogIdx :
          log[k].ev \in {"evaluate", "walk", "print"} => LineValid(log[k].line)
    /\ \A k \in LogIdx :
          (log[k].ev = "setExpr" /\ ~LineValid(log[k].line))
             => IF k < Len(log) THEN log[k + 1].ev = "error" /\ log[k + 1].line = log[k].line
                ELSE pc = "error"
    /\ \A k \in LogIdx :
          (log[k].ev = "error" /\ k < Len(log)) => log[k + 1].ev = "setExpr"
    /\ pc \in {"evaluate", "specs"} => valid

\* an invalid line was reported and a later valid line was walked
C1_Witness ==
    \E j \in LogIdx, k \in LogIdx :
        /\ j < k
        /\ log[j].ev = "error" /\ ~LineValid(log[j].line)
        /\ log[k].ev = "walk"

C7_SpecsAppendOnly ==
    [][/\ Len(examiner') >= Len(examiner)
       /\ \A i \in 1..Len(examiner) : examiner'[i] = examiner[i]]_vars

\* two lines were walked and the second walk added specs to those of the first
C7_Witness ==
    \E j \in LogIdx, k \in LogIdx :
        /\ j < k
        /\ log[j].ev = "print" /\ log[k].ev = "print"
        /\ log[j].n > 0 /\ log[k].n > log[j].n
        /\ Len(examiner) = log[k].n

\* on every finite stream the loop exits (under FairSpec)
DriverTerminates == <>(pc = "exited")

\* the loop exits exactly at a "quit" or "q" line or at end of input, and never
\* submits a line that is exactly "quit" or "q"
DriverExitsAtQuitOrEof ==
    /\ pc = "exited" => str = "q" \/ str = "quit"
    /\ \A k \in LogIdx : ~quit(log[k].line)

\* the lines getline has extracted from the stream
LinesRead == SubSeq(stream.lines, 1, pos)

\* C10: when the loop has exited, every line read before the exit, other than
\* the "quit" or "q" line it exited at, was submitted through setExpr.
C10_EveryLineReadIsSubmitted ==
    pc = "exited" =>
        SubmittedOf(log) =
            IF pos > 0 /\ quit(stream.lines[pos])
            THEN SubSeq(stream.lines, 1, pos - 1)
            ELSE LinesRead

(***************************************************************************)
(* Properties of the tree operations (SpecTree).                           *)
(***************************************************************************)
\* a tree that consists of nested call nodes only, one per level
RECURSIVE IsCallChain(_)
IsCallChain(n) ==
    /\ n.kind = "func"
    /\ numChildren(n) <= 1
    /\ numChildren(n) = 1 => IsCallChain(child(n, 0))

RECURSIVE ChainDepth(_)
ChainDepth(n) == IF numChildren(n) = 0 THEN 1 ELSE 1 + ChainDepth(child(n, 0))

\* the path of the call at depth d of a chain (the root is at depth 0)
ChainPath(d) == [i \in 1..d |-> 0]

IsProperPrefix(p, q) == Len(p) < Len(q) /\ SubSeq(q, 1, Len(p)) = p

\* C2: one walk of a tree of D nested call nodes emits exactly D specs, spec(i)
\* being the call at depth i; in any tree the spec of a call precedes the specs of
\* everything nested in its arguments.
C2_NestedCallsPreOrder ==
    walks = 1 =>
        /\ IsCallChain(node) =>
              /\ Len(examiner) = ChainDepth(node)
              /\ \A i \in 1..Len(examiner) :
                    /\ examiner[i].kind = "call"
                    /\ examiner[i].path = ChainPath(i - 1)
                    /\ examiner[i].name = nodeAt(node, ChainPath(i - 1)).name
        /\ \A i \in 1..Len(examiner), j \in 1..Len(examiner) :
              IsProperPrefix(examiner[i].path, examiner[j].path) => i < j

\* a chain of at least three nested calls was walked once
C2_Witness ==
    /\ walks = 1
    /\ IsCallChain(node)
    /\ ChainDepth(node) >= 3
    /\ Len(examiner) >= 3

RECURSIVE DirectCalls(_, _)
DirectCalls(calls, p) ==
    IF calls = <<>> THEN <<>>
    ELSE LET q == Head(calls)
         IN  IF Len(q) = Len(p) + 1 /\ SubSeq(q, 1, Len(p)) = p
             THEN <<q[Len(q)]>> \o DirectCalls(Tail(calls), p)
             ELSE DirectCalls(Tail(calls), p)

\* the paths of the call nodes DummyFuncX::prep ran on: the root and the prepared calls below
PreppedCalls ==
    {<<>>} \cup {prepCalls[k] : k \in {i \in 1..Len(prepCalls) :
                                         nodeAt(node, prepCalls[i]).kind = "func"}}

\* C9: DummyFuncX::prep calls prep exactly once on each child that is not a
\* string argument, in increasing index order, never on a string argument, and
\* returns the wanted type it was given, valid children or not.
C9_PrepSkipsTagsReturnsWanted ==
    prepRet # "none" =>
        /\ prepRet = wanted
        /\ \A p \in PreppedCalls :
              LET n == nodeAt(node, p)
                  d == DirectCalls(prepCalls, p)
              IN  /\ \A i \in 1..Len(d), j \in 1..Len(d) : i < j => d[i] < d[j]
                  /\ {d[i] : i \in 1..Len(d)} =
                        {c \in 0..(numChildren(n) - 1) : ~isStrArg(n, c)}

\* prep ran on a call with a tag argument and an unresolved variable argument
C9_Witness ==
    /\ prepRet = "FP3" /\ wanted = "FP3"
    /\ numChildren(node) = 3
    /\ \E i \in 0..2 : isStrArg(node, i)
    /\ \E i \in 0..2 : child(node, i).kind = "var"
    /\ Len(prepCalls) >= 2

\* C5: DummyFuncX::eval leaves the zero vector in result, whatever node it is
\* called for and whatever result held before.
C5_EvalReturnsZeroVector == top = "eval" => result = ZeroVec

(***************************************************************************)
(* Properties of the Vec3d operations (SpecVec).                           *)
(***************************************************************************)
\* C6: the zero vector normalizes to (0,0,0), out of place and in place, angle
\* is 0 whenever either vector has zero length, and none of these divides by
\* the zero length.
C6_ZeroLengthIsSafe ==
    [][/\ (vop' = "normalized" /\ a = ZeroVec) =>
             vecResult' = ZeroVec /\ divisors' = <<>>
       /\ (vop' = "normalize" /\ a = ZeroVec) =>
             a' = ZeroVec /\ divisors' = <<>>
       /\ (vop' \in {"angle", "angleOf"} /\ (length(a) = 0 \/ length(b) = 0)) =>
             dblResult' = 0 /\ divisors' = <<>>]_vars

\* components that are whole numbers within the bound
SmallInt(v) == \A i \in 1..3 : \E c \in -CompMax..CompMax : v[i] = c * Unit

\* C8: for a nonzero vector v = (x,y,z) with bounded whole-number components,
\* orthogonal() returns (y+z, z-x, -x-y), the result's inner product with v is
\* 0, and v is left as it was.
C8_OrthogonalIsOrthogonal ==
    [][(vop' = "orthogonal" /\ SmallInt(a) /\ a # ZeroVec) =>
          /\ vecResult' = <<a[2] + a[3], a[3] - a[1], (0 - a[1]) - a[2]>>
          /\ dot(a, vecResult') = 0
          /\ a' = a]_vars

\* orthogonal() ran on a nonzero whole-number vector and gave a nonzero vector
C8_Witness ==
    /\ vop = "orthogonal"
    /\ SmallInt(a)
    /\ a # ZeroVec
    /\ a[1] # 0 /\ a[3] # 0
    /\ vecResult # ZeroVec

====
